---- MODULE Spec2Model ----
(***************************************************************************)
(* State-machine model of the SentinelGo updater: the scheduler loop       *)
(* (updater.Run), one update attempt (performUpdate with its phases and    *)
(* rollback), the binary path detector (paths.BinaryDetector) and the      *)
(* per-platform service managers (service.Manager).                        *)
(*                                                                         *)
(* internal/updater/updater.go holds several revisions of the package one  *)
(* after the other; the model follows the revision at lines 1088-2971      *)
(* (BackupInfo.BinaryPath, cleanupBackupFile, getMainAgentBinaryPath-      *)
(* WithDetails), together with the detector of unnamed/part_007, the path  *)
(* functions of internal/paths/detector_linux.go:339-467 and the managers  *)
(* of unnamed/part_005 (linux), unnamed/part_006 (darwin) and              *)
(* internal/service/manager_windows.go (windows).                          *)
(***************************************************************************)
EXTENDS Integers, Sequences, FiniteSets, TLC

(***************************************************************************)
(* Bounds of the model.                                                    *)
(***************************************************************************)
\* Number of scheduler ticks explored.
MaxTicks == 2
\* Builds of the managed binary: build k prints "v1.6.k" for --version.
MaxBuild == 3

(***************************************************************************)
(* Paths, files and bytes.                                                 *)
(***************************************************************************)
\* A binary location outside PATH and outside the conventional directories;
\* only the service configuration or the running process can name it.
PCustom == "custom/sentinel"
\* filepath.Join(GetBinaryDirectory(), "sentinel"): the hardcoded fallback,
\* which is also the first conventional directory.
PFallback == "usr_local_bin/sentinel"
\* filepath.Join(gopath, "bin", "sentinel"): where `go install` leaves the
\* compiled binary; with GOPATH = $HOME/go it is a conventional directory.
PGoBin == "gopath_bin/sentinel"

BinPaths == {PCustom, PFallback, PGoBin}
NoPath == ""

Suffixes == {"bin", "backup", "old"}
Files == BinPaths \X Suffixes

\* The file names the code builds from a binary path.
BinFile(p) == <<p, "bin">>
BackupFile(p) == <<p, "backup">>
OldFile(p) == <<p, "old">>

\* What a file name denotes: no file, a truncated write, a directory, or the
\* complete build k.
NoFile == 0
Partial == -1
Directory == -2
Builds == 1..MaxBuild
Bytes == {NoFile, Partial, Directory} \cup Builds

Platforms == {"linux", "darwin", "windows"}

VARIABLES
    platform,       \* runtime.GOOS
    pathEnv,        \* the binary paths reachable through $PATH, in order
    fs,             \* file -> bytes
    xbit,           \* files with an execute permission bit
    svcRegistered,  \* the service is registered with the OS supervisor
    svcPath,        \* the executable path of the registration
    running,        \* executable path of the running service process, or NoPath
    cachedPath,     \* BinaryDetector.cachedPath
    configPath,     \* BinaryDetector.configPath (manual override)
    detectorInstanceSet, \* paths.detectorInstance != nil
    pc,             \* position of the scheduler loop / update attempt
    ticks,          \* ticks started so far
    targetVersion,  \* performUpdate's argument (a build)
    ctxPath,        \* binaryPath of performUpdate's getInstalledVersion
    currentVersion, \* currentVersion of performUpdate (a build)
    backup,         \* the *BackupInfo of the attempt
    newBinaryPath,  \* downloadAndCompile's result
    installTarget,  \* targetPath of installBinary
    rbBinaryPath,   \* binaryPath of rollback
    updateErr,      \* the phase whose failure ended the forward path, or "none"
    rollbackCalls,  \* calls of rollback in this attempt
    isRunningCalls, \* IsRunning calls of the last verifyMainAgentRunning
    polls,          \* what each IsRunning call of that verification observed
    slept,          \* seconds that verification spent in time.Sleep
    outcome,        \* how the last attempt ended
    criticalLog,    \* backup paths named in the recovery instructions logged so far
    snapFs,         \* fs when the attempt started
    snapSvc,        \* <<svcRegistered, svcPath, running>> when the attempt started
    checkedVersion, \* currentVersion of Run's version check (a build, 0: error)
    latestVersion,  \* latestVersion of Run's version check (a build, 0: error)
    cmpCurrent,     \* an argument pair and the result of isNewerVersion
    cmpLatest,
    cmpResult,
    resolveLog,     \* the resolver calls under study, in order
    callers         \* the concurrent callers of DetectBinaryPath: where each is

vars == <<platform, pathEnv, fs, xbit, svcRegistered, svcPath, running,
          cachedPath, configPath, detectorInstanceSet, pc, ticks,
          targetVersion, ctxPath, currentVersion, backup, newBinaryPath,
          installTarget,
          rbBinaryPath, updateErr, rollbackCalls, isRunningCalls, polls, slept, outcome, criticalLog,
          snapFs, snapSvc, checkedVersion, latestVersion, cmpCurrent,
          cmpLatest, cmpResult, resolveLog, callers>>

checkVars == <<checkedVersion, latestVersion>>
cmpVars == <<cmpCurrent, cmpLatest, cmpResult>>
envVars == <<platform, pathEnv, configPath>>
attemptVars == <<targetVersion, ctxPath, currentVersion, backup, newBinaryPath, installTarget,
                 rbBinaryPath, updateErr, rollbackCalls, isRunningCalls, polls, slept,
                 snapFs, snapSvc>>
svcVars == <<svcRegistered, svcPath, running>>

\* A version string: an optional "v" and dot-separated segments, each a
\* string of decimal digits.  Build k prints and is published as "v1.6.k".
VersionOf(k) == [v |-> TRUE, segs |-> << <<1>>, <<6>>, <<k>> >>]

\* strings.TrimPrefix(version, "v")
TrimPrefix(version) == version.segs

\* fmt.Sscanf(segment, "%d", &num): the number the digits denote, 0 for none.
RECURSIVE Sscanf(_)
Sscanf(digits) ==
    IF digits = << >> THEN 0
    ELSE 10 * Sscanf(SubSeq(digits, 1, Len(digits) - 1)) + digits[Len(digits)]

\* parseVersion: the first three segments as numbers, missing ones zero.
parseVersion(version) ==
    [i \in 1..3 |-> IF i <= Len(version) THEN Sscanf(version[i]) ELSE 0]

\* A variant of CompareFrom: any greater component makes the version newer.
CompareAnyGreater(currentParts, latestParts, i) ==
    \E n \in i..3 : latestParts[n] > currentParts[n]

\* The loop of isNewerVersion from component i on.
RECURSIVE CompareFrom(_, _, _)
CompareFrom(currentParts, latestParts, i) ==
    IF i > 3 THEN FALSE
    ELSE IF latestParts[i] > currentParts[i] THEN TRUE
    ELSE IF latestParts[i] < currentParts[i] THEN FALSE
    ELSE CompareFrom(currentParts, latestParts, i + 1)

\* A variant of isNewerVersion: a version that is not older counts as newer.
isNotOlderVersion(current, latest) ==
    ~CompareFrom(parseVersion(TrimPrefix(latest)),
                 parseVersion(TrimPrefix(current)), 1)

isNewerVersion(current, latest) ==
    IF TrimPrefix(current) = TrimPrefix(latest) THEN FALSE
    ELSE CompareFrom(parseVersion(TrimPrefix(current)),
                     parseVersion(TrimPrefix(latest)), 1)

(***************************************************************************)
(* Binary path detector (package paths).                                   *)
(***************************************************************************)
\* getCommonPaths(): the conventional directories, in probing order.
CommonPaths == <<PFallback, PGoBin>>

\* validateBinaryPathWithDetails: exists, is no directory, and has an
\* execute bit off Windows.
validateBinaryPath(p, f, x) ==
    /\ p # NoPath
    /\ f[BinFile(p)] # NoFile
    /\ f[BinFile(p)] # Directory
    /\ (platform # "windows" => BinFile(p) \in x)

\* First element of sequence s that lies in the set good, or NoPath.
FirstIn(s, good) ==
    LET idx == {i \in 1..Len(s) : s[i] \in good}
    IN  IF idx = {} THEN NoPath
        ELSE s[CHOOSE i \in idx : \A j \in idx : i <= j]

\* The binary paths that exist / that validate in file system f, x.
ExistingPaths(f) == {p \in BinPaths : f[BinFile(p)] \notin {NoFile, Directory}}
ValidPaths(f, x) == {p \in BinPaths : validateBinaryPath(p, f, x)}

\* detectFromServiceConfig: the executable named by the unit file, plist or
\* service registration; NoPath stands for the strategy's error.
detectFromServiceConfig(reg, sp) == IF reg THEN sp ELSE NoPath

\* detectFromRunningProcess: the executable of a running "sentinel" process.
detectFromRunningProcess(run) == run

\* detectFromPATH / searchPATH: first PATH entry holding a file of that name.
detectFromPATH(f) == FirstIn(pathEnv, ExistingPaths(f))

\* detectFromCommonPaths: first conventional path that exists and validates.
detectFromCommonPaths(f, x) == FirstIn(CommonPaths, ValidPaths(f, x))

\* A variant of StrategyResults: the conventional directories are probed
\* first and the service configuration last.
StrategyResultsReversed(f, x, reg, sp, run) ==
    << detectFromCommonPaths(f, x),
       detectFromPATH(f),
       detectFromRunningProcess(run),
       detectFromServiceConfig(reg, sp) >>

\* The strategies of DetectBinaryPath in their order; each yields a path or
\* NoPath (its error).
StrategyResults(f, x, reg, sp, run) ==
    << detectFromServiceConfig(reg, sp),
       detectFromRunningProcess(run),
       detectFromPATH(f),
       detectFromCommonPaths(f, x) >>

\* A variant of setCachedPath: the detected path is not stored.
setCachedPathForgets(c, path) == c

\* A variant of invalidateCache: the cached path is left in place.
invalidateCacheKeeps(c) == c

\* setCachedPath / invalidateCache: the cached path they leave behind.
setCachedPath(c, path) == path
invalidateCache(c) == NoPath

\* The loop over the strategies from the i-th on: a strategy that returned an
\* error or a path failing the validation is skipped, the first other one
\* ends the loop.  [won, tried]: the winning path (NoPath if none) and the
\* number of strategies that were executed.
RECURSIVE StrategyLoop(_, _, _)
StrategyLoop(results, good, i) ==
    IF i > Len(results)
    THEN [won |-> NoPath, tried |-> Len(results)]
    ELSE IF results[i] = NoPath
    THEN StrategyLoop(results, good, i + 1)
    ELSE IF results[i] \notin good
    THEN StrategyLoop(results, good, i + 1)
    ELSE [won |-> results[i], tried |-> i]

\* The strategy loop's outcome: won is the first strategy result that passed
\* the validation (NoPath if none did), c the cache the loop started with.
AutoDetect(c, won) ==
    IF won # NoPath
    THEN [ok |-> TRUE, path |-> won, cache |-> setCachedPath(c, won),
          probed |-> TRUE]
    ELSE [ok |-> FALSE, path |-> NoPath, cache |-> c, probed |-> TRUE]

\* A variant of InvalidOverride: a configured path that fails the validation
\* makes the detection fail.
InvalidOverrideFails(c, won) ==
    [ok |-> FALSE, path |-> NoPath, cache |-> c, probed |-> FALSE]

\* A configured path that failed the validation: a warning is logged and
\* the strategy loop follows.
InvalidOverride(c, won) == AutoDetect(c, won)

\* DetectBinaryPath with cache c: [ok, path, cache, probed, tried], cache
\* being the cached path the call leaves behind, probed whether the
\* detection strategies were run, tried how many of them.
DetectBinaryPath(c, f, x, reg, sp, run) ==
    LET Good(p) == validateBinaryPath(p, f, x)
        stale == IF c # NoPath THEN invalidateCache(c) ELSE c
        loop == StrategyLoop(StrategyResults(f, x, reg, sp, run),
                             ValidPaths(f, x), 1)
        r == IF c # NoPath /\ Good(c)
             THEN [ok |-> TRUE, path |-> c, cache |-> c, probed |-> FALSE]
             ELSE IF configPath # NoPath
             THEN IF Good(configPath)
                  THEN [ok |-> TRUE, path |-> configPath,
                        cache |-> setCachedPath(stale, configPath),
                        probed |-> FALSE]
                  ELSE InvalidOverride(stale, loop.won)
             ELSE AutoDetect(stale, loop.won)
    IN  [ok |-> r.ok, path |-> r.path, cache |-> r.cache,
         probed |-> r.probed, tried |-> IF r.probed THEN loop.tried ELSE 0]

\* getFallbackBinaryPath
getFallbackBinaryPath == PFallback

\* GetMainAgentBinaryPath: detection, or the hardcoded fallback on error.
GetMainAgentBinaryPath(c, f, x, reg, sp, run) ==
    LET d == DetectBinaryPath(c, f, x, reg, sp, run)
    IN  [path |-> IF d.ok THEN d.path ELSE getFallbackBinaryPath,
         cache |-> d.cache, detected |-> d.ok, probed |-> d.probed,
         tried |-> d.tried]

\* A variant of InvalidateBinaryPathCache: the call leaves the cache alone.
InvalidateBinaryPathCacheNoop(c, instanceSet) == c

\* InvalidateBinaryPathCache: clears the cache once detectorInstance is set.
InvalidateBinaryPathCache(c, instanceSet) ==
    IF instanceSet THEN invalidateCache(c) ELSE c

\* getInstalledVersion: detect through GetDetector(), stat the path, run it
\* with --version.  [ok, path, version, cache]; version is the build whose
\* version string the binary printed.
getInstalledVersion(c, instanceSet, f, x, reg, sp, run) ==
    LET d == DetectBinaryPath(c, f, x, reg, sp, run)
    IN  IF ~d.ok
        THEN [ok |-> FALSE, path |-> NoPath, version |-> 0, cache |-> d.cache]
        ELSE IF f[BinFile(d.path)] = NoFile
        THEN [ok |-> FALSE, path |-> d.path, version |-> 0,
              cache |-> InvalidateBinaryPathCache(d.cache, instanceSet)]
        ELSE IF f[BinFile(d.path)] \notin Builds
        THEN [ok |-> FALSE, path |-> d.path, version |-> 0,
              cache |-> InvalidateBinaryPathCache(d.cache, instanceSet)]
        ELSE [ok |-> TRUE, path |-> d.path, version |-> f[BinFile(d.path)],
              cache |-> d.cache]

(***************************************************************************)
(* Service managers (package service).  Each operator is the set of        *)
(* results (TRUE: nil, FALSE: error) the call can return when the service  *)
(* is registered (reg) or not.  The OS command behind Stop and Uninstall   *)
(* exits non-zero for a service that is not registered (systemctl: "Unit   *)
(* not loaded" / "Unit file does not exist"; launchctl: no such service;   *)
(* sc.exe: error 1060); for a registered service it may succeed or fail.   *)
(***************************************************************************)
linuxStop(reg) == IF reg THEN {TRUE, FALSE} ELSE {FALSE}
darwinStop(reg) == IF reg THEN {TRUE, FALSE} ELSE {FALSE}
\* sc.exe stop; output containing "1060" is turned into nil.
windowsStop(reg) == IF reg THEN {TRUE, FALSE} ELSE {TRUE}

\* systemctl disable fails first for a missing unit.
linuxUninstall(reg) == IF reg THEN {TRUE, FALSE} ELSE {FALSE}
\* launchctl unload errors are ignored; removing a missing plist is ignored.
darwinUninstall(reg) == IF reg THEN {TRUE, FALSE} ELSE {TRUE}
windowsUninstall(reg) == IF reg THEN {TRUE, FALSE} ELSE {TRUE}

\* Install rewrites the unit file / plist; sc.exe create fails (1073) when
\* the service already exists.
linuxInstall(reg) == {TRUE, FALSE}
darwinInstall(reg) == {TRUE, FALSE}
windowsInstall(reg) == IF reg THEN {FALSE} ELSE {TRUE, FALSE}

\* newPlatformManager: the manager of the build's platform.
Stop(reg) ==
    CASE platform = "linux" -> linuxStop(reg)
      [] platform = "darwin" -> darwinStop(reg)
      [] platform = "windows" -> windowsStop(reg)

Uninstall(reg) ==
    CASE platform = "linux" -> linuxUninstall(reg)
      [] platform = "darwin" -> darwinUninstall(reg)
      [] platform = "windows" -> windowsUninstall(reg)

Install(reg) ==
    CASE platform = "linux" -> linuxInstall(reg)
      [] platform = "darwin" -> darwinInstall(reg)
      [] platform = "windows" -> windowsInstall(reg)

\* The file at p can be executed: complete bytes, execute bit off Windows.
Runnable(p, f, x) ==
    /\ p # NoPath
    /\ f[BinFile(p)] \in Builds
    /\ (platform # "windows" => BinFile(p) \in x)

\* Start: the results of `systemctl start` / `launchctl start` / `sc.exe
\* start`.  An unregistered service cannot be started; sc.exe start fails for
\* a service that already runs (1056) or whose image cannot be executed.
Start(reg, sp, run, f, x) ==
    IF ~reg THEN {FALSE}
    ELSE IF platform = "windows" /\ (run # NoPath \/ ~Runnable(sp, f, x))
    THEN {FALSE}
    ELSE {TRUE, FALSE}

\* The process after a successful Start: an already running one stays; a
\* registration whose image cannot be executed yields no process.
StartedProcess(sp, run, f, x) ==
    IF run # NoPath THEN run
    ELSE IF Runnable(sp, f, x) THEN sp
    ELSE NoPath

\* os.WriteFile on the image of a running process is refused by the OS
\* (ETXTBSY on Linux, a sharing violation on Windows).
WriteBlocked(p, run) == run = p /\ platform \in {"linux", "windows"}

(***************************************************************************)
(* Initial states: one managed binary (build 1) somewhere, the service     *)
(* registered for it or not, the updater freshly started.                  *)
(***************************************************************************)
\* The goroutines that may call DetectBinaryPath at the same time, and the
\* state of one that is in no call: cached and found are the call's locals.
Callers == {1, 2}
NoCallers ==
    [k \in Callers |->
        [pc |-> "idle", cached |-> NoPath, found |-> NoPath, calls |-> 0]]

PathEnvChoices == {<< >>, <<PFallback>>, <<PFallback, PGoBin>>}

NoBackup == [Version |-> 0, BackupPath |-> <<NoPath, "backup">>,
             BinaryPath |-> NoPath]

\* The scheduler before its first tick.
InitScheduler ==
    /\ detectorInstanceSet = FALSE
    /\ pc = "idle"
    /\ ticks = 0
    /\ targetVersion = 0
    /\ ctxPath = NoPath
    /\ currentVersion = 0
    /\ backup = NoBackup
    /\ newBinaryPath = NoPath
    /\ installTarget = NoPath
    /\ rbBinaryPath = NoPath
    /\ updateErr = "none"
    /\ rollbackCalls = 0
    /\ isRunningCalls = 0
    /\ polls = << >>
    /\ slept = 0
    /\ outcome = "NONE"
    /\ criticalLog = {}
    /\ snapFs = fs
    /\ snapSvc = <<svcRegistered, svcPath, running>>
    /\ checkedVersion = 0
    /\ latestVersion = 0

InitUpdater ==
    /\ platform \in Platforms
    /\ pathEnv \in PathEnvChoices
    /\ configPath \in {NoPath, PCustom}
    /\ \E p0 \in BinPaths, legacy \in {NoFile, 1}, exec \in BOOLEAN :
         /\ fs = [f \in Files |->
                    IF f = BinFile(p0) THEN 1
                    ELSE IF f = OldFile(p0) THEN legacy
                    ELSE NoFile]
         /\ xbit = IF exec THEN {BinFile(p0)} ELSE {}
         /\ \E reg \in BOOLEAN :
              /\ svcRegistered = reg
              /\ svcPath = IF reg THEN p0 ELSE NoPath
              /\ running \in (IF reg /\ Runnable(p0, fs, xbit)
                              THEN {NoPath, p0} ELSE {NoPath})
    /\ cachedPath = NoPath
    /\ InitScheduler

\* The updater with no comparison under study.
Init ==
    /\ InitUpdater
    /\ cmpCurrent = VersionOf(1)
    /\ cmpLatest = VersionOf(1)
    /\ cmpResult = "pending"
    /\ resolveLog = << >>
    /\ callers = NoCallers

(***************************************************************************)
(* The scheduler loop and the forward path of performUpdate.               *)
(***************************************************************************)
\* The attempt ends with outcome o and the loop sleeps until the next tick.
EndAttempt(o) ==
    /\ pc' = "idle"
    /\ outcome' = o
    /\ criticalLog' = IF o = "CRITICAL"
                      THEN criticalLog \cup {backup.BackupPath}
                      ELSE criticalLog

\* A variant of Fail: the error is returned to Run without calling rollback.
FailWithoutRollback(ph) ==
    /\ pc' = "idle"
    /\ updateErr' = ph
    /\ outcome' = "ABORTED"
    /\ criticalLog' = criticalLog

\* The forward path returns an error from phase ph: rollback is triggered.
Fail(ph) ==
    /\ pc' = "rollback"
    /\ updateErr' = ph
    /\ UNCHANGED <<outcome, criticalLog>>

\* A variant of TickMayBegin: iterations are started by a timer whether or
\* not the previous one has returned.
TickMayBeginAnytime == TRUE

\* Run is one goroutine with one sequential loop: the next iteration begins
\* only after the previous one, performUpdate and its rollback included,
\* has returned.
TickMayBegin == pc = "idle"

\* One iteration of Run's loop up to the call of performUpdate: the version
\* check.  getLatestVersion yields a published build or an error (0).
\* A variant of UpdateDue: an update to the latest version is started even
\* when the installed version could not be determined.
UpdateDueUnchecked(v, latest) ==
    /\ latest # 0
    /\ (v.ok => isNewerVersion(VersionOf(v.version), VersionOf(latest)))

\* One iteration of Run reaches performUpdate: getInstalledVersion and
\* getLatestVersion (latest # 0) returned no error, each of which would
\* sleep and continue, and the latest version is newer.
UpdateDue(v, latest) ==
    /\ v.ok
    /\ latest # 0
    /\ isNewerVersion(VersionOf(v.version), VersionOf(latest))

Run ==
    /\ TickMayBegin
    /\ ticks < MaxTicks
    /\ ticks' = ticks + 1
    /\ LET v == getInstalledVersion(cachedPath, detectorInstanceSet, fs, xbit,
                                    svcRegistered, svcPath, running)
       IN  /\ cachedPath' = v.cache
           /\ checkedVersion' = IF v.ok THEN v.version ELSE 0
           /\ \E latest \in Builds \cup {0} :
                /\ latestVersion' = IF v.ok THEN latest ELSE 0
                /\ IF UpdateDue(v, latest)
                   THEN /\ pc' = "env"
                        /\ targetVersion' = latest
                   ELSE /\ pc' = "idle"
                        /\ targetVersion' = 0
    /\ outcome' = "NONE"
    /\ criticalLog' = criticalLog
    /\ ctxPath' = NoPath
    /\ currentVersion' = 0
    /\ backup' = NoBackup
    /\ newBinaryPath' = NoPath
    /\ installTarget' = NoPath
    /\ rbBinaryPath' = NoPath
    /\ updateErr' = "none"
    /\ rollbackCalls' = 0
    /\ isRunningCalls' = 0
    /\ polls' = << >>
    /\ slept' = 0
    /\ snapFs' = fs
    /\ snapSvc' = <<svcRegistered, svcPath, running>>
    /\ UNCHANGED <<envVars, cmpVars, resolveLog, callers, fs, xbit, svcVars, detectorInstanceSet>>

\* performUpdate up to the backup: setEnvironmentVariables, then
\* getInstalledVersion; either failing returns before anything is changed.
BuildContext ==
    /\ pc = "env"
    /\ \E envOk \in BOOLEAN :
         LET v == getInstalledVersion(cachedPath, detectorInstanceSet, fs, xbit,
                                      svcRegistered, svcPath, running)
         IN  IF ~envOk
             THEN /\ EndAttempt("ABORTED")
                  /\ UNCHANGED <<cachedPath, ctxPath, currentVersion>>
             ELSE /\ cachedPath' = v.cache
                  /\ IF v.ok
                     THEN /\ pc' = "backup"
                          /\ ctxPath' = v.path
                          /\ currentVersion' = v.version
                          /\ UNCHANGED <<outcome, criticalLog>>
                     ELSE /\ EndAttempt("ABORTED")
                          /\ UNCHANGED <<ctxPath, currentVersion>>
    /\ UNCHANGED <<envVars, checkVars, cmpVars, resolveLog, callers, fs, xbit, svcVars, detectorInstanceSet, ticks,
                   targetVersion, backup, newBinaryPath, installTarget,
                   rbBinaryPath, updateErr, rollbackCalls, isRunningCalls, polls, slept,
                   snapFs, snapSvc>>

\* A variant of BackupDestination: the backup path is derived from the
\* hardcoded install location instead of the resolved binary path.
BackupDestinationHardcoded(binaryPath) == BackupFile(getFallbackBinaryPath)

\* backupPath := binaryPath + ".backup"
BackupDestination(binaryPath) == BackupFile(binaryPath)

\* A variant of BackupInfoOf: the record names the hardcoded install
\* location as the place to restore to.
BackupInfoWrongBinaryPath(version, backupPath, binaryPath) ==
    [Version |-> version, BackupPath |-> backupPath,
     BinaryPath |-> getFallbackBinaryPath]

\* The BackupInfo createBackup returns.
BackupInfoOf(version, backupPath, binaryPath) ==
    [Version |-> version, BackupPath |-> backupPath, BinaryPath |-> binaryPath]

\* A variant of FailedBackupWrite: source and destination are swapped, so
\* the failed write lands on the installed binary.
FailedBackupWriteInPlace(f, backupPath, binaryPath) ==
    [f EXCEPT ![BinFile(binaryPath)] = Partial]

\* The file system after os.WriteFile(backupPath, ...) failed part-way.
FailedBackupWrite(f, backupPath, binaryPath) ==
    [f EXCEPT ![backupPath] = Partial]

\* createBackup: resolve the binary path, copy its bytes to <path>.backup.
\* res: "ok", "read" (ReadFile failed), "open" (WriteFile could not open the
\* backup file), "write" (WriteFile failed part-way).
createBackup ==
    /\ pc = "backup"
    /\ LET g == GetMainAgentBinaryPath(cachedPath, fs, xbit, svcRegistered,
                                       svcPath, running)
           binaryPath == g.path
           backupPath == BackupDestination(binaryPath)
       IN  /\ cachedPath' = g.cache
           /\ detectorInstanceSet' = TRUE
           /\ IF fs[BinFile(binaryPath)] = NoFile
              THEN /\ EndAttempt("ABORTED")
                   /\ UNCHANGED <<fs, xbit, backup>>
              ELSE \E res \in {"ok", "read", "open", "write"} :
                     CASE res = "ok" ->
                            /\ fs' = [fs EXCEPT ![backupPath] = fs[BinFile(binaryPath)]]
                            /\ xbit' = IF fs[backupPath] = NoFile
                                       THEN xbit \cup {backupPath} ELSE xbit
                            /\ backup' = BackupInfoOf(currentVersion, backupPath,
                                                      binaryPath)
                            /\ pc' = "stop"
                            /\ UNCHANGED <<outcome, criticalLog>>
                       [] res = "write" ->
                            /\ fs' = FailedBackupWrite(fs, backupPath, binaryPath)
                            /\ xbit' = IF fs[backupPath] = NoFile
                                       THEN xbit \cup {backupPath} ELSE xbit
                            /\ EndAttempt("ABORTED")
                            /\ UNCHANGED backup
                       [] OTHER ->
                            /\ EndAttempt("ABORTED")
                            /\ UNCHANGED <<fs, xbit, backup>>
    /\ UNCHANGED <<envVars, checkVars, cmpVars, resolveLog, callers, svcVars, ticks, targetVersion, ctxPath,
                   currentVersion, newBinaryPath, installTarget, rbBinaryPath,
                   updateErr, rollbackCalls, isRunningCalls, polls, slept, snapFs, snapSvc>>

\* Step 1: serviceManager.Stop.
StopService ==
    /\ pc = "stop"
    /\ \E ok \in Stop(svcRegistered) :
         IF ok
         THEN /\ running' = NoPath
              /\ pc' = "uninstall"
              /\ UNCHANGED <<updateErr, outcome, criticalLog>>
         ELSE /\ Fail("STOP_SERVICE")
              /\ UNCHANGED running
    /\ UNCHANGED <<envVars, checkVars, cmpVars, resolveLog, callers, fs, xbit, svcRegistered, svcPath, cachedPath,
                   detectorInstanceSet, ticks, targetVersion, ctxPath,
                   currentVersion, backup, newBinaryPath, installTarget,
                   rbBinaryPath, rollbackCalls, isRunningCalls, polls, slept, snapFs, snapSvc>>

\* Step 2: serviceManager.Uninstall.
UninstallService ==
    /\ pc = "uninstall"
    /\ \E ok \in Uninstall(svcRegistered) :
         IF ok
         THEN /\ svcRegistered' = FALSE
              /\ svcPath' = NoPath
              /\ pc' = "cleanup"
              /\ UNCHANGED <<updateErr, outcome, criticalLog>>
         ELSE /\ Fail("UNINSTALL_SERVICE")
              /\ UNCHANGED <<svcRegistered, svcPath>>
    /\ UNCHANGED <<envVars, checkVars, cmpVars, resolveLog, callers, fs, xbit, running, cachedPath,
                   detectorInstanceSet, ticks, targetVersion, ctxPath,
                   currentVersion, backup, newBinaryPath, installTarget,
                   rbBinaryPath, rollbackCalls, isRunningCalls, polls, slept, snapFs, snapSvc>>

\* A variant of CleanupTargets: the .backup file is removed as well, as an
\* earlier revision of cleanupOldFiles did.
CleanupTargetsWithBackup(binaryPath) ==
    {BinFile(binaryPath), OldFile(binaryPath), BackupFile(binaryPath)}

\* The files cleanupOldFiles removes: the binary and the legacy .old file;
\* the .backup file is only looked at.
CleanupTargets(binaryPath) == {BinFile(binaryPath), OldFile(binaryPath)}

\* Step 3: cleanupOldFiles; each os.Remove may fail, and the phase's error
\* is only logged by performUpdate.
cleanupOldFiles ==
    /\ pc = "cleanup"
    /\ LET g == GetMainAgentBinaryPath(cachedPath, fs, xbit, svcRegistered,
                                       svcPath, running)
           binaryPath == g.path
       IN  /\ cachedPath' = g.cache
           /\ \E removed \in SUBSET CleanupTargets(binaryPath) :
                /\ fs' = [f \in Files |-> IF f \in removed THEN NoFile ELSE fs[f]]
                /\ xbit' = xbit \ removed
    /\ pc' = "compile"
    /\ UNCHANGED <<envVars, checkVars, cmpVars, resolveLog, callers, svcVars, detectorInstanceSet, ticks, targetVersion,
                   ctxPath, currentVersion, backup, newBinaryPath,
                   installTarget, rbBinaryPath, updateErr, rollbackCalls,
                   isRunningCalls, polls, slept, outcome, criticalLog, snapFs, snapSvc>>

\* Step 4: downloadAndCompile: `go install` leaves the target build at
\* GOPATH/bin, or fails and leaves the file system as it was.
downloadAndCompile ==
    /\ pc = "compile"
    /\ \E ok \in BOOLEAN :
         IF ok
         THEN /\ fs' = [fs EXCEPT ![BinFile(PGoBin)] = targetVersion]
              /\ xbit' = xbit \cup {BinFile(PGoBin)}
              /\ newBinaryPath' = PGoBin
              /\ pc' = "install"
              /\ UNCHANGED <<updateErr, outcome, criticalLog>>
         ELSE /\ Fail("COMPILE")
              /\ UNCHANGED <<fs, xbit, newBinaryPath>>
    /\ UNCHANGED <<envVars, checkVars, cmpVars, resolveLog, callers, svcVars, cachedPath, detectorInstanceSet, ticks,
                   targetVersion, ctxPath, currentVersion, backup,
                   installTarget, rbBinaryPath, rollbackCalls, isRunningCalls, polls, slept,
                   snapFs, snapSvc>>

\* Step 5: installBinary copies the compiled binary to the path the resolver
\* gives now; on success performUpdate invalidates the resolver cache.
\* res: "ok", "read" (MkdirAll or ReadFile failed), "open" (WriteFile could
\* not open the target), "write" (WriteFile failed part-way), "chmod" (the
\* bytes are written, a later step failed).
installBinary ==
    /\ pc = "install"
    /\ LET g == GetMainAgentBinaryPath(cachedPath, fs, xbit, svcRegistered,
                                       svcPath, running)
           targetPath == g.path
           target == BinFile(targetPath)
       IN  /\ installTarget' = targetPath
           /\ \E res \in {"ok", "read", "open", "write", "chmod"} :
                CASE res = "ok" /\ ~WriteBlocked(targetPath, running) ->
                       /\ fs' = [fs EXCEPT ![target] = fs[BinFile(newBinaryPath)]]
                       /\ xbit' = xbit \cup {target}
                       /\ cachedPath' = InvalidateBinaryPathCache(g.cache,
                                                                  detectorInstanceSet)
                       /\ pc' = "reinstall"
                       /\ UNCHANGED <<updateErr, outcome, criticalLog>>
                  [] res = "chmod" /\ ~WriteBlocked(targetPath, running) ->
                       /\ fs' = [fs EXCEPT ![target] = fs[BinFile(newBinaryPath)]]
                       /\ xbit' = IF fs[target] = NoFile
                                  THEN xbit \cup {target} ELSE xbit
                       /\ cachedPath' = g.cache
                       /\ Fail("INSTALL")
                  [] res = "write" /\ ~WriteBlocked(targetPath, running) ->
                       /\ fs' = [fs EXCEPT ![target] = Partial]
                       /\ xbit' = IF fs[target] = NoFile
                                  THEN xbit \cup {target} ELSE xbit
                       /\ cachedPath' = g.cache
                       /\ Fail("INSTALL")
                  [] OTHER ->
                       /\ cachedPath' = g.cache
                       /\ Fail("INSTALL")
                       /\ UNCHANGED <<fs, xbit>>
    /\ UNCHANGED <<envVars, checkVars, cmpVars, resolveLog, callers, svcVars, detectorInstanceSet, ticks, targetVersion,
                   ctxPath, currentVersion, backup, newBinaryPath,
                   rbBinaryPath, rollbackCalls, isRunningCalls, polls, slept, snapFs, snapSvc>>

\* Step 6: re-detect the binary path (getMainAgentBinaryPathWithDetails, or
\* GetMainAgentBinaryPath's fallback when that fails) and register it.
ReinstallService ==
    /\ pc = "reinstall"
    /\ LET g == GetMainAgentBinaryPath(cachedPath, fs, xbit, svcRegistered,
                                       svcPath, running)
           installedBinaryPath == g.path
       IN  /\ cachedPath' = g.cache
           /\ \E ok \in Install(svcRegistered) :
                IF ok
                THEN /\ svcRegistered' = TRUE
                     /\ svcPath' = installedBinaryPath
                     /\ pc' = "start"
                     /\ UNCHANGED <<updateErr, outcome, criticalLog>>
                ELSE /\ Fail("REINSTALL_SERVICE")
                     /\ UNCHANGED <<svcRegistered, svcPath>>
    /\ UNCHANGED <<envVars, checkVars, cmpVars, resolveLog, callers, fs, xbit, running, detectorInstanceSet, ticks,
                   targetVersion, ctxPath, currentVersion, backup,
                   newBinaryPath, installTarget, rbBinaryPath, rollbackCalls,
                   isRunningCalls, polls, slept, snapFs, snapSvc>>

\* Step 7: serviceManager.Start.
StartService ==
    /\ pc = "start"
    /\ \E ok \in Start(svcRegistered, svcPath, running, fs, xbit) :
         IF ok
         THEN /\ running' = StartedProcess(svcPath, running, fs, xbit)
              /\ pc' = "verify"
              /\ UNCHANGED <<updateErr, outcome, criticalLog>>
         ELSE /\ Fail("START_SERVICE")
              /\ UNCHANGED running
    /\ UNCHANGED <<envVars, checkVars, cmpVars, resolveLog, callers, fs, xbit, svcRegistered, svcPath, cachedPath,
                   detectorInstanceSet, ticks, targetVersion, ctxPath,
                   currentVersion, backup, newBinaryPath, installTarget,
                   rbBinaryPath, rollbackCalls, isRunningCalls, polls, slept, snapFs, snapSvc>>

\* verifyMainAgentRunning polls IsRunning at most maxRetries times.
maxRetries == 3

\* The delay between two polls, in seconds.
retryDelay == 2

\* What serviceManager.IsRunning answers: (true, nil) or (false, nil).  No
\* platform's manager returns an error from it; a failing query command is
\* reported as not running.
IsRunningResults == {"running", "stopped"}

\* A variant of verifyLoop: the loop goes on after a poll that saw the
\* service running and reports what the last poll saw.
RECURSIVE verifyLoopToTheEnd(_, _, _)
verifyLoopToTheEnd(obs, attempt, sleeps) ==
    IF attempt >= maxRetries
    THEN [ok |-> obs[maxRetries] = "running", calls |-> maxRetries,
          slept |-> sleeps]
    ELSE verifyLoopToTheEnd(obs, attempt + 1, sleeps + retryDelay)

\* The for loop of verifyMainAgentRunning from iteration attempt on, after
\* sleeps seconds of sleep; obs[k] is what the k-th IsRunning call returns,
\* "error" standing for a non-nil error.
RECURSIVE verifyLoop(_, _, _)
verifyLoop(obs, attempt, sleeps) ==
    IF attempt > maxRetries
    THEN [ok |-> FALSE, calls |-> maxRetries, slept |-> sleeps]
    ELSE IF obs[attempt] = "error"
    THEN IF attempt < maxRetries
         THEN verifyLoop(obs, attempt + 1, sleeps + retryDelay)
         ELSE [ok |-> FALSE, calls |-> attempt, slept |-> sleeps]
    ELSE IF obs[attempt] = "running"
    THEN [ok |-> TRUE, calls |-> attempt, slept |-> sleeps]
    ELSE IF attempt < maxRetries
    THEN verifyLoop(obs, attempt + 1, sleeps + retryDelay)
    ELSE verifyLoop(obs, attempt + 1, sleeps)

\* verifyMainAgentRunning against the answers obs of IsRunning.
verifyMainAgentRunning(obs) == verifyLoop(obs, 1, 0)

\* What maxRetries polls can return: a service without a process is never
\* seen running; one with a process may be seen late, die or never be seen.
PollSequences(run) ==
    [1..maxRetries ->
        IF run = NoPath THEN IsRunningResults \ {"running"}
        ELSE IsRunningResults]

\* The runs of the polling loop: [ok, calls, slept, polls, alive].  polls
\* are the answers the loop consumed; a process that was seen is up
\* afterwards, one that was not seen may be up or not.
VerifyRuns(run) ==
    {[ok |-> verifyMainAgentRunning(obs).ok,
      calls |-> verifyMainAgentRunning(obs).calls,
      slept |-> verifyMainAgentRunning(obs).slept,
      polls |-> SubSeq(obs, 1, verifyMainAgentRunning(obs).calls),
      alive |-> a] :
        <<obs, a>> \in {oa \in PollSequences(run) \X BOOLEAN :
                          /\ verifyMainAgentRunning(oa[1]).ok => oa[2]
                          /\ run = NoPath => ~oa[2]}}

\* Step 8: verifyMainAgentRunning in the forward path.
VerifyService ==
    /\ pc = "verify"
    /\ \E r \in VerifyRuns(running) :
         /\ isRunningCalls' = r.calls
         /\ polls' = r.polls
         /\ slept' = r.slept
         /\ running' = IF r.alive THEN running ELSE NoPath
         /\ IF r.ok
            THEN /\ pc' = "done"
                 /\ UNCHANGED <<updateErr, outcome, criticalLog>>
            ELSE Fail("VERIFY")
    /\ UNCHANGED <<envVars, checkVars, cmpVars, resolveLog, callers, fs, xbit, svcRegistered, svcPath, cachedPath,
                   detectorInstanceSet, ticks, targetVersion, ctxPath,
                   currentVersion, backup, newBinaryPath, installTarget,
                   rbBinaryPath, rollbackCalls, snapFs, snapSvc>>

\* A variant of UpdateResult: an error of cleanupBackupFile is returned by
\* performUpdate, so Run reports the attempt as failed.
UpdateResultFailingOnCleanup(cleaned) ==
    IF cleaned THEN EndAttempt("DONE") ELSE EndAttempt("ABORTED")

\* The end of performUpdate: whether or not cleanupBackupFile returned an
\* error, the error is only logged and performUpdate returns nil.
UpdateResult(cleaned) == EndAttempt("DONE")

\* cleanupBackupFile after a successful update: a missing file is no error,
\* a failing os.Remove is one.
cleanupBackupFile ==
    /\ pc = "done"
    /\ \E rm \in BOOLEAN :
         /\ fs' = [fs EXCEPT ![backup.BackupPath] = IF rm THEN NoFile ELSE @]
         /\ xbit' = IF rm THEN xbit \ {backup.BackupPath} ELSE xbit
         /\ UpdateResult(rm \/ fs[backup.BackupPath] = NoFile)
    /\ UNCHANGED <<envVars, checkVars, cmpVars, resolveLog, callers, svcVars, cachedPath, detectorInstanceSet, ticks,
                   attemptVars>>

\* A variant of RestorePath: the restore path is resolved afresh, as an
\* earlier revision of rollback did.
RestorePathFresh(b, c, f, x, reg, sp, run) ==
    GetMainAgentBinaryPath(c, f, x, reg, sp, run).path

(***************************************************************************)
(* rollback(backup), entered from performUpdate when updateErr != nil.     *)
(***************************************************************************)
\* The path rollback restores to: the one recorded in the BackupInfo.
RestorePath(b, c, f, x, reg, sp, run) == b.BinaryPath

\* A variant of RollbackStepFailed: the restore is tried again.
RollbackStepRetried ==
    /\ pc' = "rb_restore"
    /\ UNCHANGED <<outcome, criticalLog>>

\* A step of rollback returned its error: rollback returns it, performUpdate
\* logs it as critical and returns.
RollbackStepFailed == EndAttempt("CRITICAL")

\* A variant of BackupMissing: rollback does not look for the backup file.
BackupMissingUnchecked(f, b) == FALSE

\* os.Stat(backup.BackupPath) reports that the file does not exist.
BackupMissing(f, b) == f[b.BackupPath] = NoFile

\* Step 1: the backup file must still exist.
RollbackBegin ==
    /\ pc = "rollback"
    /\ rollbackCalls' = rollbackCalls + 1
    /\ IF BackupMissing(fs, backup)
       THEN RollbackStepFailed
       ELSE /\ pc' = "rb_restore"
            /\ UNCHANGED <<outcome, criticalLog>>
    /\ UNCHANGED <<envVars, checkVars, cmpVars, resolveLog, callers, fs, xbit, svcVars, cachedPath, detectorInstanceSet,
                   ticks, targetVersion, ctxPath, currentVersion, backup,
                   newBinaryPath, installTarget, rbBinaryPath, updateErr,
                   isRunningCalls, polls, slept, snapFs, snapSvc>>

\* Step 2: copy the backup's bytes to the restore path.  res as in
\* installBinary; a failing Chmod is only logged.
RollbackRestore ==
    /\ pc = "rb_restore"
    /\ LET binaryPath == RestorePath(backup, cachedPath, fs, xbit,
                                     svcRegistered, svcPath, running)
           target == BinFile(binaryPath)
       IN  /\ rbBinaryPath' = binaryPath
           /\ \E res \in {"ok", "read", "open", "write"} :
                CASE res = "ok" /\ ~WriteBlocked(binaryPath, running) ->
                       /\ fs' = [fs EXCEPT ![target] = fs[backup.BackupPath]]
                       /\ xbit' = xbit \cup {target}
                       /\ pc' = "rb_install"
                       /\ UNCHANGED <<outcome, criticalLog>>
                  [] res = "write" /\ ~WriteBlocked(binaryPath, running) ->
                       /\ fs' = [fs EXCEPT ![target] = Partial]
                       /\ xbit' = IF fs[target] = NoFile
                                  THEN xbit \cup {target} ELSE xbit
                       /\ RollbackStepFailed
                  [] OTHER ->
                       /\ RollbackStepFailed
                       /\ UNCHANGED <<fs, xbit>>
    /\ UNCHANGED <<envVars, checkVars, cmpVars, resolveLog, callers, svcVars, cachedPath, detectorInstanceSet, ticks,
                   targetVersion, ctxPath, currentVersion, backup,
                   newBinaryPath, installTarget, updateErr, rollbackCalls,
                   isRunningCalls, polls, slept, snapFs, snapSvc>>

\* Step 3: serviceManager.Install with the restore path.
RollbackInstall ==
    /\ pc = "rb_install"
    /\ \E ok \in Install(svcRegistered) :
         IF ok
         THEN /\ svcRegistered' = TRUE
              /\ svcPath' = rbBinaryPath
              /\ pc' = "rb_start"
              /\ UNCHANGED <<outcome, criticalLog>>
         ELSE /\ RollbackStepFailed
              /\ UNCHANGED <<svcRegistered, svcPath>>
    /\ UNCHANGED <<envVars, checkVars, cmpVars, resolveLog, callers, fs, xbit, running, cachedPath, detectorInstanceSet,
                   ticks, attemptVars>>

\* Step 4: serviceManager.Start.
RollbackStart ==
    /\ pc = "rb_start"
    /\ \E ok \in Start(svcRegistered, svcPath, running, fs, xbit) :
         IF ok
         THEN /\ running' = StartedProcess(svcPath, running, fs, xbit)
              /\ pc' = "rb_verify"
              /\ UNCHANGED <<outcome, criticalLog>>
         ELSE /\ RollbackStepFailed
              /\ UNCHANGED running
    /\ UNCHANGED <<envVars, checkVars, cmpVars, resolveLog, callers, fs, xbit, svcRegistered, svcPath, cachedPath,
                   detectorInstanceSet, ticks, attemptVars>>

\* A variant of RollbackResult: the verification error is only logged.
RollbackResultIgnoringVerify(verified) == "ROLLED_BACK"

\* How rollback ends after its verification returned ok or an error.
RollbackResult(verified) == IF verified THEN "ROLLED_BACK" ELSE "CRITICAL"

\* Step 5: verifyMainAgentRunning; rollback returns nil only when it passes.
RollbackVerify ==
    /\ pc = "rb_verify"
    /\ \E r \in VerifyRuns(running) :
         /\ isRunningCalls' = r.calls
         /\ polls' = r.polls
         /\ slept' = r.slept
         /\ running' = IF r.alive THEN running ELSE NoPath
         /\ EndAttempt(RollbackResult(r.ok))
    /\ UNCHANGED <<envVars, checkVars, cmpVars, resolveLog, callers, fs, xbit, svcRegistered, svcPath, cachedPath,
                   detectorInstanceSet, ticks, targetVersion, ctxPath,
                   currentVersion, backup, newBinaryPath, installTarget,
                   rbBinaryPath, updateErr, rollbackCalls, snapFs, snapSvc>>

Next ==
    \/ Run
    \/ BuildContext
    \/ createBackup
    \/ StopService
    \/ UninstallService
    \/ cleanupOldFiles
    \/ downloadAndCompile
    \/ installBinary
    \/ ReinstallService
    \/ StartService
    \/ VerifyService
    \/ cleanupBackupFile
    \/ RollbackBegin
    \/ RollbackRestore
    \/ RollbackInstall
    \/ RollbackStart
    \/ RollbackVerify

Spec == Init /\ [][Next]_vars

(***************************************************************************)
(* isNewerVersion on its own: arbitrary pairs of version strings.          *)
(***************************************************************************)
\* Segments per version string.
MaxSegs == 3

\* The segments "0", "1", "9" and "10".
SegDigits == {<<0>>, <<1>>, <<9>>, <<1, 0>>}

VersionStrings ==
    [v : BOOLEAN,
     segs : UNION {[1..n -> SegDigits] : n \in 1..MaxSegs}]

\* Everything but the comparison's variables.
updaterVars == <<platform, pathEnv, fs, xbit, svcRegistered, svcPath,
                 running, cachedPath, configPath, detectorInstanceSet, pc,
                 ticks, attemptVars, outcome, criticalLog, checkVars>>

\* One updater installation, on which nothing happens, and a pair of
\* version strings to compare.
InitVersions ==
    /\ InitUpdater
    /\ cmpCurrent \in VersionStrings
    /\ cmpLatest \in VersionStrings
    /\ cmpResult = "pending"
    /\ resolveLog = << >>
    /\ callers = NoCallers
    /\ platform = "linux"
    /\ pathEnv = << >>
    /\ configPath = NoPath
    /\ fs = [f \in Files |-> IF f = BinFile(PFallback) THEN 1 ELSE NoFile]
    /\ xbit = {BinFile(PFallback)}
    /\ ~svcRegistered

\* A call isNewerVersion(current, latest).
CompareVersions ==
    /\ cmpResult = "pending"
    /\ cmpResult' = IF isNewerVersion(cmpCurrent, cmpLatest)
                    THEN "true" ELSE "false"
    /\ UNCHANGED <<updaterVars, cmpCurrent, cmpLatest, resolveLog, callers>>

NextVersions == CompareVersions

SpecVersions == InitVersions /\ [][NextVersions]_vars

(***************************************************************************)
(* The detector on its own: resolver calls in an arbitrary environment.    *)
(***************************************************************************)
\* Calls per behaviour.
MaxResolveEvents == 2

\* What the resolver calls leave alone.
resolverFrame == <<envVars, fs, xbit, svcVars, pc, ticks, attemptVars,
                   outcome, criticalLog, checkVars, cmpVars, callers>>

\* Any layout of the three locations (absent, a file with or without an
\* execute bit, a directory), any registration, process, override and
\* cached path.
InitResolver ==
    /\ platform \in Platforms
    /\ pathEnv \in PathEnvChoices
    /\ configPath \in {NoPath, PCustom}
    /\ \E kind \in [BinPaths -> {NoFile, 1, Directory}] :
         /\ fs = [f \in Files |-> IF f[2] = "bin" THEN kind[f[1]] ELSE NoFile]
         /\ xbit \in SUBSET {BinFile(p) : p \in {q \in BinPaths : kind[q] = 1}}
    /\ svcRegistered \in BOOLEAN
    /\ svcPath \in (IF svcRegistered THEN BinPaths ELSE {NoPath})
    /\ running \in {NoPath} \cup {p \in BinPaths : Runnable(p, fs, xbit)}
    /\ cachedPath \in BinPaths \cup {NoPath}
    /\ InitScheduler
    /\ cmpCurrent = VersionOf(1)
    /\ cmpLatest = VersionOf(1)
    /\ cmpResult = "pending"
    /\ resolveLog = << >>
    /\ callers = NoCallers

\* A call of GetDetector().DetectBinaryPath(); path is NoPath when the call
\* returned its error.
ResolveDetect ==
    /\ Len(resolveLog) < MaxResolveEvents
    /\ LET d == DetectBinaryPath(cachedPath, fs, xbit, svcRegistered, svcPath,
                                 running)
       IN  /\ cachedPath' = d.cache
           /\ resolveLog' = Append(resolveLog,
                  [api |-> "DetectBinaryPath", detected |-> d.ok,
                   path |-> d.path, probed |-> d.probed, tried |-> d.tried])
    /\ UNCHANGED <<resolverFrame, detectorInstanceSet>>

\* A call of paths.GetMainAgentBinaryPath(), the function createBackup,
\* cleanupOldFiles and installBinary use.
ResolveForOrchestrator ==
    /\ Len(resolveLog) < MaxResolveEvents
    /\ LET g == GetMainAgentBinaryPath(cachedPath, fs, xbit, svcRegistered,
                                       svcPath, running)
       IN  /\ cachedPath' = g.cache
           /\ resolveLog' = Append(resolveLog,
                  [api |-> "GetMainAgentBinaryPath", detected |-> g.detected,
                   path |-> g.path, probed |-> g.probed, tried |-> g.tried])
    /\ detectorInstanceSet' = TRUE
    /\ UNCHANGED resolverFrame

\* A call of paths.InvalidateBinaryPathCache().
ResolverInvalidate ==
    /\ Len(resolveLog) < MaxResolveEvents
    /\ cachedPath' = InvalidateBinaryPathCache(cachedPath, detectorInstanceSet)
    /\ resolveLog' = Append(resolveLog,
           [api |-> "InvalidateBinaryPathCache", detected |-> FALSE,
            path |-> NoPath, probed |-> FALSE, tried |-> 0])
    /\ UNCHANGED <<resolverFrame, detectorInstanceSet>>

NextResolver ==
    \/ ResolveDetect
    \/ ResolveForOrchestrator
    \/ ResolverInvalidate

SpecResolver == InitResolver /\ [][NextResolver]_vars

\* The environment removes a binary, as os.Remove does in the detector's
\* cache tests; a process started from it keeps running.
BinaryRemoved ==
    /\ \E p \in BinPaths :
         /\ fs[BinFile(p)] # NoFile
         /\ fs' = [fs EXCEPT ![BinFile(p)] = NoFile]
         /\ xbit' = xbit \ {BinFile(p)}
    /\ UNCHANGED <<envVars, svcVars, pc, ticks, attemptVars, outcome, criticalLog,
                   checkVars, cmpVars, cachedPath, detectorInstanceSet,
                   resolveLog, callers>>

NextResolverStale ==
    \/ NextResolver
    \/ BinaryRemoved

\* The resolver while binaries may disappear between its calls.
SpecResolverStale == InitResolver /\ [][NextResolverStale]_vars

\* The updater started while the managed binary is whole or damaged: what a
\* failed restore of an earlier updater process, or the disk, has left.
InitColdStart ==
    /\ platform \in Platforms
    /\ pathEnv \in PathEnvChoices
    /\ configPath \in {NoPath, PCustom}
    /\ \E p0 \in BinPaths, b0 \in {1, Partial}, exec \in BOOLEAN :
         /\ fs = [f \in Files |-> IF f = BinFile(p0) THEN b0 ELSE NoFile]
         /\ xbit = IF exec THEN {BinFile(p0)} ELSE {}
         /\ \E reg \in BOOLEAN :
              /\ svcRegistered = reg
              /\ svcPath = IF reg THEN p0 ELSE NoPath
              /\ running \in (IF reg /\ Runnable(p0, fs, xbit)
                              THEN {NoPath, p0} ELSE {NoPath})
    /\ cachedPath = NoPath
    /\ InitScheduler
    /\ cmpCurrent = VersionOf(1)
    /\ cmpLatest = VersionOf(1)
    /\ cmpResult = "pending"
    /\ resolveLog = << >>
    /\ callers = NoCallers

SpecColdStart == InitColdStart /\ [][Next]_vars

(***************************************************************************)
(* DetectBinaryPath called by several goroutines at once.  Each of          *)
(* getCachedPath, setCachedPath and invalidateCache holds the detector's    *)
(* lock for its own duration only, so a call is a sequence of steps.        *)
(***************************************************************************)
\* Calls each goroutine makes.
MaxCalls == 2

\* What the concurrent calls leave alone.
callerFrame == <<envVars, svcVars, pc, ticks, attemptVars, outcome, criticalLog,
                 checkVars, cmpVars, detectorInstanceSet, resolveLog>>

\* A freshly created detector in any layout of executable binaries.
InitCallers ==
    /\ platform \in Platforms
    /\ pathEnv \in PathEnvChoices
    /\ configPath \in {NoPath, PCustom}
    /\ \E kind \in [BinPaths -> {NoFile, 1}] :
         /\ fs = [f \in Files |-> IF f[2] = "bin" THEN kind[f[1]] ELSE NoFile]
         /\ xbit = {BinFile(p) : p \in {q \in BinPaths : kind[q] = 1}}
    /\ svcRegistered = FALSE
    /\ svcPath = NoPath
    /\ running = NoPath
    /\ cachedPath = NoPath
    /\ InitScheduler
    /\ cmpCurrent = VersionOf(1)
    /\ cmpLatest = VersionOf(1)
    /\ cmpResult = "pending"
    /\ resolveLog = << >>
    /\ callers = NoCallers

\* getCachedPath at the start of a call: with a cached path the call goes on
\* to validate it, without one to the override and the strategies.
CallerBegin(k) ==
    /\ callers[k].pc = "idle"
    /\ callers[k].calls < MaxCalls
    /\ callers' = [callers EXCEPT
           ![k] = [pc |-> IF cachedPath # NoPath THEN "validate" ELSE "detect",
                   cached |-> cachedPath, found |-> NoPath,
                   calls |-> callers[k].calls + 1]]
    /\ UNCHANGED <<callerFrame, fs, xbit, cachedPath>>

\* validateBinaryPath(cached): a valid cached path is returned.
CallerValidate(k) ==
    /\ callers[k].pc = "validate"
    /\ callers' = [callers EXCEPT
           ![k].pc = IF validateBinaryPath(callers[k].cached, fs, xbit)
                     THEN "idle" ELSE "invalidate",
           ![k].found = IF validateBinaryPath(callers[k].cached, fs, xbit)
                        THEN callers[k].cached ELSE NoPath]
    /\ UNCHANGED <<callerFrame, fs, xbit, cachedPath>>

\* d.invalidateCache() after the cached path failed the validation.
CallerInvalidate(k) ==
    /\ callers[k].pc = "invalidate"
    /\ cachedPath' = invalidateCache(cachedPath)
    /\ callers' = [callers EXCEPT ![k].pc = "detect"]
    /\ UNCHANGED <<callerFrame, fs, xbit>>

\* The override and the strategy loop, which read no cache.
CallerDetect(k) ==
    /\ callers[k].pc = "detect"
    /\ LET d == DetectBinaryPath(NoPath, fs, xbit, svcRegistered, svcPath,
                                 running)
       IN  callers' = [callers EXCEPT
               ![k].pc = IF d.ok THEN "store" ELSE "idle",
               ![k].found = d.path]
    /\ UNCHANGED <<callerFrame, fs, xbit, cachedPath>>

\* d.setCachedPath(path) before the call returns the path.
CallerStore(k) ==
    /\ callers[k].pc = "store"
    /\ cachedPath' = setCachedPath(cachedPath, callers[k].found)
    /\ callers' = [callers EXCEPT ![k].pc = "idle"]
    /\ UNCHANGED <<callerFrame, fs, xbit>>

NextCallers ==
    \/ \E k \in Callers : CallerBegin(k)
    \/ \E k \in Callers : CallerValidate(k)
    \/ \E k \in Callers : CallerInvalidate(k)
    \/ \E k \in Callers : CallerDetect(k)
    \/ \E k \in Callers : CallerStore(k)
    \/ BinaryRemoved

SpecCallers == InitCallers /\ [][NextCallers]_vars

\* rollback is straight-line code over blocking calls and a poll loop of
\* maxRetries rounds: once entered, each of its steps is eventually taken.
SpecRollbackFair ==
    Spec /\ WF_vars(RollbackBegin \/ RollbackRestore \/ RollbackInstall
                    \/ RollbackStart \/ RollbackVerify)

(***************************************************************************)
(* The updater in an environment that may remove the backup file.          *)
(***************************************************************************)
\* Something other than the updater removes the attempt's backup file
\* before rollback looks for it.
BackupLost ==
    /\ pc \in {"stop", "uninstall", "cleanup", "compile", "install",
               "reinstall", "start", "verify", "rollback"}
    /\ fs[backup.BackupPath] # NoFile
    /\ fs' = [fs EXCEPT ![backup.BackupPath] = NoFile]
    /\ xbit' = xbit \ {backup.BackupPath}
    /\ UNCHANGED <<envVars, checkVars, cmpVars, resolveLog, callers, svcVars,
                   cachedPath, detectorInstanceSet, pc, ticks, attemptVars,
                   outcome, criticalLog>>

NextBackupLoss ==
    \/ Next
    \/ BackupLost

SpecBackupLoss == Init /\ [][NextBackupLoss]_vars

TypeOK ==
    /\ platform \in Platforms
    /\ fs \in [Files -> Bytes]
    /\ xbit \subseteq Files
    /\ svcRegistered \in BOOLEAN
    /\ svcPath \in BinPaths \cup {NoPath}
    /\ running \in BinPaths \cup {NoPath}
    /\ cachedPath \in BinPaths \cup {NoPath}
    /\ pc \in {"idle", "env", "backup", "stop", "uninstall", "cleanup",
               "compile", "install", "reinstall", "start", "verify", "done",
               "rollback", "rb_restore", "rb_install", "rb_start", "rb_verify"}
    /\ outcome \in {"NONE", "ABORTED", "DONE", "ROLLED_BACK", "CRITICAL"}
    /\ criticalLog \subseteq Files
    /\ ticks \in 0..MaxTicks

(***************************************************************************)
(* Properties of an update attempt.                                        *)
(***************************************************************************)
\* C1: after rollback has completed successfully, the file at the binary
\* path resolved at the start of the attempt holds the bytes it held before
\* the attempt began.
C1_RollbackRestoresOriginalBytes ==
    (pc = "idle" /\ outcome = "ROLLED_BACK") =>
        fs[BinFile(ctxPath)] = snapFs[BinFile(ctxPath)]

\* A rollback that completed after the new binary had been written over the
\* original path and the restarted service had failed verification.
C1_Witness ==
    /\ (pc = "idle" /\ outcome = "ROLLED_BACK")
    /\ updateErr = "VERIFY"
    /\ installTarget = ctxPath
    /\ fs[BinFile(ctxPath)] = currentVersion
    /\ targetVersion # currentVersion

\* C2: rollback restores to the path recorded in the backup, which is the
\* path the backup was taken from, and the restore reproduces at exactly
\* that path the bytes the binary had before the attempt.
C2_RestoreToRecordedPath ==
    pc = "rb_install" =>
        /\ rbBinaryPath = backup.BinaryPath
        /\ backup.BackupPath = BackupFile(rbBinaryPath)
        /\ fs[BinFile(rbBinaryPath)] = fs[backup.BackupPath]
        /\ fs[BinFile(rbBinaryPath)] = snapFs[BinFile(rbBinaryPath)]

\* The restore has just been made while a fresh resolution answers another
\* path than the recorded one.
C2_Witness ==
    /\ pc = "rb_install"
    /\ rbBinaryPath = backup.BinaryPath
    /\ GetMainAgentBinaryPath(cachedPath, fs, xbit, svcRegistered, svcPath,
                              running).path # rbBinaryPath

\* C3: installBinary copies the new binary to the path that was resolved
\* before any mutation and backed up, never to a path resolved again after
\* the cleanup.
C3_InstallAtBackedUpPath ==
    installTarget # NoPath =>
        installTarget = ctxPath /\ installTarget = backup.BinaryPath

\* C4: the backup path is the binary path resolved at the start of the
\* attempt followed by ".backup", and the record names that binary path.
C4_BackupPathDerivedFromBinaryPath ==
    backup # NoBackup =>
        /\ backup.BinaryPath = ctxPath
        /\ backup.BackupPath = BackupFile(ctxPath)

\* The backup of a binary at a custom location has just been written.
C4_Witness ==
    /\ pc = "stop"
    /\ backup # NoBackup
    /\ ctxPath = PCustom
    /\ fs[backup.BackupPath] = fs[BinFile(ctxPath)]

\* C5: when rollback reports success the service is registered and its
\* process is running.
C5_RolledBackServiceRunning ==
    (pc = "idle" /\ outcome = "ROLLED_BACK") => svcRegistered /\ running # NoPath

\* A rollback that re-registered and restarted the service at the original
\* path after the forward Start had failed.
C5_Witness ==
    /\ (pc = "idle" /\ outcome = "ROLLED_BACK")
    /\ updateErr = "START_SERVICE"
    /\ svcRegistered
    /\ svcPath = ctxPath
    /\ running = ctxPath

\* C6: a failing phase from the stop of the service to the verification
\* hands over to rollback with that phase's error, the cleanup never does,
\* and rollback runs exactly once in an attempt that failed and not at all
\* in any other.
C6_FailureRollsBackOnce ==
    [][
        /\ pc \in {"stop", "uninstall", "compile", "install", "reinstall",
                   "start", "verify"} /\ pc' # pc =>
             LET next == CASE pc = "stop" -> "uninstall"
                           [] pc = "uninstall" -> "cleanup"
                           [] pc = "compile" -> "install"
                           [] pc = "install" -> "reinstall"
                           [] pc = "reinstall" -> "start"
                           [] pc = "start" -> "verify"
                           [] pc = "verify" -> "done"
                 err == CASE pc = "stop" -> "STOP_SERVICE"
                          [] pc = "uninstall" -> "UNINSTALL_SERVICE"
                          [] pc = "compile" -> "COMPILE"
                          [] pc = "install" -> "INSTALL"
                          [] pc = "reinstall" -> "REINSTALL_SERVICE"
                          [] pc = "start" -> "START_SERVICE"
                          [] pc = "verify" -> "VERIFY"
             IN  \/ pc' = next /\ updateErr' = "none"
                 \/ pc' = "rollback" /\ updateErr' = err
        /\ pc = "cleanup" /\ pc' # pc =>
             pc' = "compile" /\ updateErr' = "none"
        /\ pc' = "rollback" => rollbackCalls' = 0 /\ updateErr' # "none"
        /\ pc' \in {"rb_restore", "rb_install", "rb_start", "rb_verify"} =>
             rollbackCalls' = 1
        /\ pc' = "idle" =>
             rollbackCalls' = IF updateErr' = "none" THEN 0 ELSE 1
        /\ updateErr' = "none" => rollbackCalls' = 0
    ]_vars

\* An attempt whose compilation failed has ended after one call of rollback.
C6_Witness ==
    /\ pc = "idle"
    /\ outcome = "ROLLED_BACK"
    /\ updateErr = "COMPILE"
    /\ rollbackCalls = 1

\* C7: whenever Start is invoked, the file at the binary path resolved at
\* the start of the attempt is whole: it holds the complete new binary or
\* the complete original bytes.
C7_BinaryWholeAtStart ==
    pc \in {"start", "rb_start"} =>
        fs[BinFile(ctxPath)] \in {targetVersion, snapFs[BinFile(ctxPath)]}

\* C8: a backup file is removed only by the step that follows a passed
\* verification, and the backup of an attempt that ended rolled back or in
\* the critical state still exists.
C8_BackupKeptUnlessSuccess ==
    [][
        /\ \A p \in BinPaths :
             fs[BackupFile(p)] # NoFile /\ fs'[BackupFile(p)] = NoFile =>
                 pc = "done" /\ updateErr = "none"
        /\ pc' = "idle" /\ outcome' \in {"ROLLED_BACK", "CRITICAL"} =>
             fs'[backup'.BackupPath] # NoFile
    ]_vars

\* An attempt ended in the critical state with the binary lost and the
\* backup still holding the original bytes.
C8_Witness ==
    /\ pc = "idle"
    /\ outcome = "CRITICAL"
    /\ fs[backup.BackupPath] = snapFs[BinFile(ctxPath)]
    /\ fs[BinFile(ctxPath)] # snapFs[BinFile(ctxPath)]

\* C9: Stop and Uninstall of a service that is not registered succeed on
\* every platform, so neither phase hands over to rollback then.
C9_AbsentServiceTolerated ==
    pc = "rollback" /\ updateErr \in {"STOP_SERVICE", "UNINSTALL_SERVICE"} =>
        svcRegistered

\* C10: an attempt that aborted in the environment setup, the version
\* detection or the backup has called no rollback, has left the service as
\* it was and has left every binary as it was.
C10_AbortHasNoSideEffect ==
    pc = "idle" /\ outcome = "ABORTED" =>
        /\ rollbackCalls = 0
        /\ updateErr = "none"
        /\ <<svcRegistered, svcPath, running>> = snapSvc
        /\ \A p \in BinPaths : fs[BinFile(p)] = snapFs[BinFile(p)]

\* An attempt aborted because the write of the backup failed part-way.
C10_Witness ==
    /\ pc = "idle"
    /\ outcome = "ABORTED"
    /\ ctxPath # NoPath
    /\ fs[BackupFile(ctxPath)] = Partial
    /\ fs[BinFile(ctxPath)] = currentVersion

\* C11: a tick begins only when no version check and no update attempt is
\* in flight: an attempt that was started has ended, and one whose forward
\* path failed has ended by its rollback.
C11_OneTickAtATime ==
    [][ ticks' # ticks =>
          /\ pc = "idle"
          /\ (targetVersion # 0 => outcome # "NONE")
          /\ (updateErr # "none" => outcome \in {"ROLLED_BACK", "CRITICAL"})
      ]_vars

\* The second tick has started an attempt after an earlier attempt left
\* its backup behind, i.e. after that attempt had run to its end.
C11_Witness ==
    /\ ticks = 2
    /\ pc = "env"
    /\ \E p \in BinPaths : snapFs[BackupFile(p)] \in Builds

\* C12: in a tick whose version check found the installed version equal to
\* the latest one, no later phase runs: the loop is idle with no attempt
\* outcome, no backup record, no file changed and the service untouched.
C12_SameVersionDoesNothing ==
    checkedVersion # 0 /\ latestVersion = checkedVersion =>
        /\ pc = "idle"
        /\ outcome = "NONE"
        /\ targetVersion = 0
        /\ backup = NoBackup
        /\ fs = snapFs
        /\ <<svcRegistered, svcPath, running>> = snapSvc
        /\ rollbackCalls = 0
        /\ updateErr = "none"

\* The tick after an update to build 2 finds build 2 installed and build 2
\* published.
C12_Witness ==
    /\ ticks = 2
    /\ checkedVersion = 2
    /\ latestVersion = 2
    /\ pc = "idle"

\* C13: isNewerVersion(c, l) is true exactly when l's (major, minor, patch)
\* triple, missing segments being zero, is greater than c's in the
\* lexicographic order of numbers; in particular it is false for c = l.
C13_NewerIsLexicographic ==
    LET Num(d) == IF Len(d) = 1 THEN d[1] ELSE 10 * d[1] + d[2]
        Part(ver, i) == IF i <= Len(ver.segs) THEN Num(ver.segs[i]) ELSE 0
        c == [i \in 1..3 |-> Part(cmpCurrent, i)]
        l == [i \in 1..3 |-> Part(cmpLatest, i)]
        greater == \/ l[1] > c[1]
                   \/ l[1] = c[1] /\ l[2] > c[2]
                   \/ l[1] = c[1] /\ l[2] = c[2] /\ l[3] > c[3]
    IN  cmpResult # "pending" =>
            /\ (cmpResult = "true") = greater
            /\ (cmpCurrent = cmpLatest => cmpResult = "false")

\* "1.9" against "v1.10.0": newer by a two-digit minor number, the patch
\* segment missing on one side.
C13_Witness ==
    /\ cmpCurrent = [v |-> FALSE, segs |-> << <<1>>, <<9>> >>]
    /\ cmpLatest = [v |-> TRUE, segs |-> << <<1>>, <<1, 0>>, <<0>> >>]
    /\ cmpResult = "true"

C15_ResolvedPathValidated ==
    \A i \in 1..Len(resolveLog) :
        LET e == resolveLog[i]
        IN  e.api \in {"DetectBinaryPath", "GetMainAgentBinaryPath"} =>
                /\ (e.path # NoPath => validateBinaryPath(e.path, fs, xbit))
                /\ (~e.detected => e.path = NoPath)

\* C16: a rollback that was entered ends, rolled back or in the critical
\* state; each of its steps either hands over to the next step or ends the
\* attempt in the critical state, only the last one can end it rolled back,
\* and after either end nothing is changed any more until the next tick.
C16_RollbackTerminates ==
    /\ (pc = "rollback") ~>
           (pc = "idle" /\ outcome \in {"ROLLED_BACK", "CRITICAL"})
    /\ [][
           /\ pc \in {"rollback", "rb_restore", "rb_install", "rb_start"}
              /\ pc' # pc =>
                 LET next == CASE pc = "rollback" -> "rb_restore"
                               [] pc = "rb_restore" -> "rb_install"
                               [] pc = "rb_install" -> "rb_start"
                               [] pc = "rb_start" -> "rb_verify"
                 IN  \/ pc' = next /\ outcome' = "NONE"
                     \/ pc' = "idle" /\ outcome' = "CRITICAL"
           /\ pc = "rb_verify" /\ pc' # pc =>
                 pc' = "idle" /\ outcome' \in {"ROLLED_BACK", "CRITICAL"}
           /\ pc = "idle" /\ outcome \in {"ROLLED_BACK", "CRITICAL"} =>
                 /\ fs' = fs
                 /\ xbit' = xbit
                 /\ <<svcRegistered, svcPath, running>>' =
                        <<svcRegistered, svcPath, running>>
                 /\ (pc' # pc => ticks' = ticks + 1)
       ]_vars

\* A rollback whose restore succeeded and whose re-registration failed has
\* ended in the critical state with the service unregistered.
C16_Witness ==
    /\ pc = "idle"
    /\ outcome = "CRITICAL"
    /\ rollbackCalls = 1
    /\ rbBinaryPath # NoPath
    /\ fs[BinFile(rbBinaryPath)] = fs[backup.BackupPath]
    /\ ~svcRegistered

\* C17: when the backup file is missing as rollback begins, rollback ends
\* in the critical state at once: nothing is written, the service is not
\* touched and no restore path is taken.
C17_MissingBackupIsCritical ==
    [][ pc = "rollback" /\ fs[backup.BackupPath] = NoFile =>
          /\ pc' = "idle"
          /\ outcome' = "CRITICAL"
          /\ fs' = fs
          /\ xbit' = xbit
          /\ <<svcRegistered, svcPath, running>>' =
                 <<svcRegistered, svcPath, running>>
          /\ rbBinaryPath' = NoPath
      ]_vars

\* An attempt failed after its backup file had been removed, and its
\* rollback ended without a restore.
C17_Witness ==
    /\ pc = "idle"
    /\ outcome = "CRITICAL"
    /\ rollbackCalls = 1
    /\ backup # NoBackup
    /\ fs[backup.BackupPath] = NoFile
    /\ rbBinaryPath = NoPath

\* C18: a successful attempt ends by deleting its backup file (unless the
\* removal itself fails) and returning to idle, and a backup file is deleted
\* only after the verification has seen the service running the new binary.
C18_BackupDeletedAfterVerifiedNewBinary ==
    [][
        /\ pc = "done" =>
             /\ pc' = "idle"
             /\ outcome' = "DONE"
             /\ (fs'[backup.BackupPath] = NoFile \/ fs' = fs)
        /\ \A p \in BinPaths :
             fs[BackupFile(p)] # NoFile /\ fs'[BackupFile(p)] = NoFile =>
                 /\ pc = "done"
                 /\ running # NoPath
                 /\ fs[BinFile(running)] = targetVersion
    ]_vars

\* C19: the cleanup step changes no file but the backed-up binary and its
\* legacy .old file, which it can only delete, and leaves the backup file
\* the same attempt created with its bytes and its mode.
C19_CleanupPreservesBackup ==
    [][
        pc = "cleanup" =>
            /\ fs[backup.BackupPath] \in Builds
            /\ fs'[backup.BackupPath] = fs[backup.BackupPath]
            /\ (backup.BackupPath \in xbit') = (backup.BackupPath \in xbit)
            /\ \A f \in Files :
                 fs'[f] # fs[f] =>
                     /\ f \in {BinFile(backup.BinaryPath),
                               OldFile(backup.BinaryPath)}
                     /\ fs'[f] = NoFile
    ]_vars

\* The cleanup step has deleted the binary and a legacy .old file that
\* existed when the attempt began, and the backup holds the original bytes.
C19_Witness ==
    /\ pc = "compile"
    /\ snapFs[BinFile(backup.BinaryPath)] \in Builds
    /\ snapFs[OldFile(backup.BinaryPath)] # NoFile
    /\ fs[BinFile(backup.BinaryPath)] = NoFile
    /\ fs[OldFile(backup.BinaryPath)] = NoFile
    /\ fs[backup.BackupPath] = snapFs[BinFile(backup.BinaryPath)]

\* C20: the cleanup step always hands over to the compilation with no error
\* recorded and no rollback called, whatever it failed to delete, and the
\* step after a passed verification always ends the attempt as successful,
\* whether or not the backup file could be deleted.
C20_CleanupErrorsIgnored ==
    [][
        /\ pc = "cleanup" =>
             /\ pc' = "compile"
             /\ updateErr' = "none"
             /\ rollbackCalls' = rollbackCalls
             /\ outcome' = outcome
        /\ pc = "done" =>
             /\ pc' = "idle"
             /\ outcome' = "DONE"
             /\ updateErr' = "none"
             /\ rollbackCalls' = rollbackCalls
    ]_vars

\* A successful attempt in which the cleanup step failed to delete the
\* legacy .old file and the last step failed to delete the backup file.
C20_Witness ==
    /\ pc = "idle"
    /\ outcome = "DONE"
    /\ rollbackCalls = 0
    /\ snapFs[OldFile(backup.BinaryPath)] # NoFile
    /\ fs[OldFile(backup.BinaryPath)] # NoFile
    /\ fs[backup.BackupPath] # NoFile

\* C21: the verification of the forward path calls IsRunning at most 3
\* times and sleeps 2 seconds between two consecutive calls, so at most
\* twice; it succeeds at the first call that sees the service running, and
\* when none of the 3 calls sees it running it fails and rollback follows.
C21_VerifyPollsAtMostThrice ==
    [][
        pc = "verify" =>
            /\ isRunningCalls' \in 1..3
            /\ Len(polls') = isRunningCalls'
            /\ slept' = 2 * (isRunningCalls' - 1)
            /\ \A k \in 1..(isRunningCalls' - 1) : polls'[k] # "running"
            /\ IF polls'[isRunningCalls'] = "running"
               THEN pc' = "done" /\ updateErr' = "none"
               ELSE /\ isRunningCalls' = 3
                    /\ pc' = "rollback"
                    /\ updateErr' = "VERIFY"
    ]_vars

\* The verification succeeded at its third poll, after two delays.
C21_Witness ==
    /\ pc = "done"
    /\ polls = <<"stopped", "stopped", "running">>
    /\ isRunningCalls = 3
    /\ slept = 4

\* C22: a DetectBinaryPath call made while the file at the cached path is
\* gone does not return that path and does not leave it in the cache: it
\* goes on to the steps after the cache, and it answers either a path that
\* passed the validation, which it caches, or the detection error with an
\* empty cache; unless a valid override answers, the strategies are run.
C22_StaleCacheNotReturned ==
    [][
        /\ Len(resolveLog') = Len(resolveLog) + 1
        /\ resolveLog'[Len(resolveLog')].api = "DetectBinaryPath"
        /\ cachedPath # NoPath
        /\ fs[BinFile(cachedPath)] = NoFile
        => LET e == resolveLog'[Len(resolveLog')]
           IN  /\ e.path # cachedPath
               /\ cachedPath' # cachedPath
               /\ cachedPath' = e.path
               /\ e.detected = (e.path # NoPath)
               /\ e.detected => validateBinaryPath(e.path, fs, xbit)
               /\ e.probed \/ (e.detected /\ e.path = configPath)
    ]_vars

\* A first call found and cached a path by its strategies, the file there
\* was removed, and the second call ran the strategies again and found
\* another path.
C22_Witness ==
    /\ Len(resolveLog) = 2
    /\ resolveLog[1].api = "DetectBinaryPath"
    /\ resolveLog[1].detected
    /\ resolveLog[2].api = "DetectBinaryPath"
    /\ fs[BinFile(resolveLog[1].path)] = NoFile
    /\ resolveLog[2].detected
    /\ resolveLog[2].probed
    /\ resolveLog[2].path # resolveLog[1].path
    /\ cachedPath = resolveLog[2].path

\* C23: between the successful installation and the re-detection of the
\* service registration step the resolver cache holds no path, so that
\* re-detection is not answered from the cache: it runs the strategies,
\* unless the configured override answers first.
C23_CacheEmptyAfterInstall ==
    pc = "reinstall" =>
        /\ cachedPath = NoPath
        /\ LET d == DetectBinaryPath(cachedPath, fs, xbit, svcRegistered,
                                     svcPath, running)
           IN  d.probed \/ (d.ok /\ d.path = configPath)

\* The new build has just been installed over the path the attempt's
\* earlier resolutions had cached.
C23_Witness ==
    /\ pc = "reinstall"
    /\ cachedPath = NoPath
    /\ installTarget = ctxPath
    /\ fs[BinFile(installTarget)] = targetVersion
    /\ targetVersion # currentVersion

\* C24: a version check whose detection answered a path at which there is
\* no file, or a file that cannot be run, returns with the resolver cache
\* empty, whichever tick it is made on.
C24_FailedCheckEmptiesCache ==
    [][
        LET d == DetectBinaryPath(cachedPath, fs, xbit, svcRegistered,
                                  svcPath, running)
        IN  /\ ticks' # ticks \/ pc = "env"
            /\ d.ok
            /\ fs[BinFile(d.path)] \notin Builds
            => cachedPath' = NoPath
    ]_vars

\* C25: wherever the updater is about to resolve the binary path while the
\* configured override is valid, the resolution answers the override,
\* caches it and runs no detection strategy.
C25_ValidOverrideUsed ==
    /\ pc \in {"idle", "env", "backup", "cleanup", "install", "reinstall"}
    /\ configPath # NoPath
    /\ validateBinaryPath(configPath, fs, xbit)
    => LET d == DetectBinaryPath(cachedPath, fs, xbit, svcRegistered,
                                 svcPath, running)
       IN  /\ d.ok
           /\ d.path = configPath
           /\ d.cache = configPath
           /\ ~d.probed

\* C26: a DetectBinaryPath call made while the configured override fails
\* the validation never answers the override and answers what it would
\* answer with no override configured: the valid cached path, else the
\* first strategy result that passes the validation, else the detection
\* error after all strategies were run.
C26_InvalidOverrideFallsThrough ==
    [][
        /\ Len(resolveLog') = Len(resolveLog) + 1
        /\ resolveLog'[Len(resolveLog')].api = "DetectBinaryPath"
        /\ configPath # NoPath
        /\ ~validateBinaryPath(configPath, fs, xbit)
        => LET e == resolveLog'[Len(resolveLog')]
               cached == /\ cachedPath # NoPath
                         /\ validateBinaryPath(cachedPath, fs, xbit)
               won == FirstIn(StrategyResults(fs, xbit, svcRegistered,
                                              svcPath, running),
                              ValidPaths(fs, xbit))
           IN  /\ e.path # configPath
               /\ e.detected = (cached \/ won # NoPath)
               /\ e.path = IF cached THEN cachedPath ELSE won
               /\ e.detected => validateBinaryPath(e.path, fs, xbit)
               /\ e.probed = ~cached
    ]_vars

\* With an override that names a missing file and an empty cache, the call
\* found another path by its strategies.
C26_Witness ==
    /\ Len(resolveLog) = 1
    /\ resolveLog[1].api = "DetectBinaryPath"
    /\ configPath # NoPath
    /\ fs[BinFile(configPath)] = NoFile
    /\ resolveLog[1].detected
    /\ resolveLog[1].probed
    /\ resolveLog[1].path # configPath
    /\ cachedPath = resolveLog[1].path

\* C27: a DetectBinaryPath call with no valid cached path and no valid
\* override runs the strategies in the order service configuration, running
\* process, PATH search, conventional directories: the strategy that ends
\* the run is the first whose path passes the validation, its path is
\* answered and cached, and every later strategy is left out; when no
\* strategy's path passes, all four have been run and the call fails.
C27_FirstValidStrategyWins ==
    [][
        /\ Len(resolveLog') = Len(resolveLog) + 1
        /\ resolveLog'[Len(resolveLog')].api = "DetectBinaryPath"
        /\ ~validateBinaryPath(cachedPath, fs, xbit)
        /\ ~validateBinaryPath(configPath, fs, xbit)
        => LET e == resolveLog'[Len(resolveLog')]
               order == << detectFromServiceConfig(svcRegistered, svcPath),
                           detectFromRunningProcess(running),
                           detectFromPATH(fs),
                           detectFromCommonPaths(fs, xbit) >>
           IN  /\ e.probed
               /\ e.tried \in 1..4
               /\ \A k \in 1..(e.tried - 1) :
                    ~validateBinaryPath(order[k], fs, xbit)
               /\ IF e.detected
                  THEN /\ e.path = order[e.tried]
                       /\ validateBinaryPath(e.path, fs, xbit)
                       /\ cachedPath' = e.path
                  ELSE /\ e.tried = 4
                       /\ ~validateBinaryPath(order[4], fs, xbit)
                       /\ cachedPath' = NoPath
    ]_vars

\* The running-process strategy won after the service configuration named
\* an invalid path, while the conventional directories hold another valid
\* binary that a later strategy would have found.
C27_Witness ==
    /\ Len(resolveLog) = 1
    /\ resolveLog[1].api = "DetectBinaryPath"
    /\ resolveLog[1].detected
    /\ resolveLog[1].tried = 2
    /\ svcRegistered
    /\ resolveLog[1].path = running
    /\ cachedPath = running
    /\ detectFromCommonPaths(fs, xbit) \notin {NoPath, running}

\* C28: a tick whose version check fails, in the path detection or at the
\* detected binary, enters no update phase and changes neither a file nor
\* the service; it ends with the loop idle, from where the next tick starts.
C28_FailedCheckEndsTick ==
    [][
        /\ ticks' # ticks
        /\ ~getInstalledVersion(cachedPath, detectorInstanceSet, fs, xbit,
                                svcRegistered, svcPath, running).ok
        => /\ pc' = "idle"
           /\ TickMayBegin'
           /\ targetVersion' = 0
           /\ outcome' = "NONE"
           /\ rollbackCalls' = 0
           /\ backup' = NoBackup
           /\ fs' = fs
           /\ xbit' = xbit
           /\ svcRegistered' = svcRegistered
           /\ svcPath' = svcPath
           /\ running' = running
    ]_vars

\* On linux the binary has no execute bit, so the detection failed at the
\* first tick; the loop has made its second tick, which failed as well.
C28_Witness ==
    /\ ticks = 2
    /\ pc = "idle"
    /\ platform = "linux"
    /\ xbit = {}
    /\ checkedVersion = 0
    /\ outcome = "NONE"
    /\ fs = snapFs

\* C29: the installation and the restore of rollback put bytes into a
\* binary file only while no process of the managed service is running.
C29_BinaryWrittenOnlyWhileStopped ==
    [][
        \A p \in BinPaths :
            /\ pc \in {"install", "rb_restore"}
            /\ fs'[BinFile(p)] # fs[BinFile(p)]
            => running = NoPath
    ]_vars

\* C30: after an attempt that ended rolled back, the version check of the
\* next tick resolves the path rollback restored and registered, and reports
\* the version that was installed before the attempt.
C30_RolledBackPathResolvedNext ==
    pc = "idle" /\ outcome = "ROLLED_BACK" =>
        LET v == getInstalledVersion(cachedPath, detectorInstanceSet, fs, xbit,
                                     svcRegistered, svcPath, running)
        IN  /\ svcPath = rbBinaryPath
            /\ v.ok
            /\ v.path = rbBinaryPath
            /\ v.version = currentVersion

\* C31: a backup file named in the recovery instructions of an attempt that
\* ended in the critical state keeps its bytes from then on: no later step
\* of the scheduler overwrites it or deletes it.
C31_CriticalBackupUntouched ==
    [][
        \A f \in criticalLog : fs[f] \in Builds => fs'[f] = fs[f]
    ]_vars

\* C32: the path the service registration step registers is the path at
\* which the installation of the same attempt wrote the new binary, and
\* that path holds a file when Install is called.
C32_RegisteredPathIsInstallTarget ==
    [][
        pc = "reinstall" /\ pc' = "start" =>
            /\ svcPath' = installTarget
            /\ fs[BinFile(svcPath')] = targetVersion
    ]_vars

\* C33: when rollback is about to call Install, no registration of the
\* service exists.
C33_RollbackInstallsUnregistered ==
    pc = "rb_install" => ~svcRegistered

\* C34: after an attempt that ended successfully for a target version, the
\* next version check reads that version from the installed binary, so a
\* tick on which the latest published version is still the target starts no
\* attempt.
C34_NoRepeatAfterDone ==
    pc = "idle" /\ outcome = "DONE" =>
        LET v == getInstalledVersion(cachedPath, detectorInstanceSet, fs, xbit,
                                     svcRegistered, svcPath, running)
        IN  /\ v.ok
            /\ v.version = targetVersion
            /\ ~UpdateDue(v, targetVersion)

\* C35: the invalidation a DetectBinaryPath call makes after it found the
\* cached path stale removes nothing but that path: the cache then holds
\* the path the call read, or nothing, never a path another call has
\* stored since.
C35_InvalidationRemovesOnlyStaleEntry ==
    [][
        \A k \in Callers :
            callers[k].pc = "invalidate" /\ callers'[k].pc = "detect" =>
                cachedPath \in {NoPath, callers[k].cached}
    ]_vars

====
